---- MODULE Spec2Model ----
(***************************************************************************)
(* Authentication and token lifecycle of little_diary's auth_api:          *)
(* auth/views.py (login, login_google, refresh, revoke_access,             *)
(* revoke_refresh and the flask_jwt_extended loaders) and                  *)
(* api/resources/user.py (UserResource, UserPublicInfo).  Each HTTP        *)
(* handler is one atomic action; the identity store, the token ledger      *)
(* (TokenBlacklist table) and the clock are the shared state.              *)
(* SpecConcurrent splits the verification of a token into its reads of     *)
(* the shared state, for two workers.                                      *)
(***************************************************************************)
EXTENDS Integers, Sequences, FiniteSets, TLC

(* ---- bounds of the exploration ---- *)
MaxTokens == 3
MaxTime == 1
MaxUserId == 3

(* ---- configuration read through app.config ---- *)
JWT_USER_ACCESS_TOKEN_EXPIRE_SECONDS == 1
JWT_USER_REFRESH_TOKEN_EXPIRE_SECONDS == 2
JWT_TECH_ACCESS_TOKEN_EXPIRE_SECONDS == 2
JWT_TECH_REFRESH_TOKEN_EXPIRE_SECONDS == 3

(* ---- input domains ---- *)
UUIDs == {"u1", "u2"}

VARIABLES users, nextId, ledger, held, nextJti, now, resp, inflight

vars == <<users, nextId, ledger, held, nextJti, now, resp, inflight>>

(* a token payload without user claims (user_claims key not present) *)
NoClaims == [role |-> "none", uuid |-> "none", resources |-> <<>>]

(* a bearer string that does not decode to a signed payload *)
Garbage == [jti |-> 0, type |-> "garbage", identity |-> 0, claims |-> NoClaims, iat |-> 0, exp |-> 0]

(* signed, unexpired tokens that were never written to the ledger *)
Unsaved ==
    {[jti |-> 0, type |-> "access", identity |-> 1,
      claims |-> [role |-> "Admin", uuid |-> "u1", resources |-> <<>>],
      iat |-> 0, exp |-> MaxTime + 1],
     [jti |-> 0, type |-> "refresh", identity |-> 1, claims |-> NoClaims,
      iat |-> 0, exp |-> MaxTime + 1]}

(* no bearer token in the request (login) *)
NoToken == [jti |-> 0, type |-> "none", identity |-> 0, claims |-> NoClaims, iat |-> 0, exp |-> 0]

(* requests whose token verification is in progress, one slot per worker *)
Workers == {1, 2}

Idle == [pc |-> "idle", tok |-> NoToken, auth |-> "none", identity |-> 0, claims |-> NoClaims]

(* ---- identity store (User model) ---- *)
UserById(id) == {u \in users : u.id = id}
UserByUuid(uuid) == {u \in users : u.uuid = uuid}

(* services.user_service.login_internal_user: the user or None *)
login_internal_user(username, password) ==
    {u \in users : u.username = username /\ u.password = password}

(* ---- views.py: claims and expiry policy ---- *)
(* variant: the resource grants are left out of the claims *)
get_user_claims_no_resources(user) ==
    [role |-> user.role, uuid |-> user.uuid, resources |-> <<>>]

get_user_claims(user) ==
    [role |-> user.role, uuid |-> user.uuid, resources |-> user.resources]

get_refresh_expire_delta_flat(user) == JWT_USER_REFRESH_TOKEN_EXPIRE_SECONDS

get_refresh_expire_delta(user) ==
    IF user.role = "Tech" THEN JWT_TECH_REFRESH_TOKEN_EXPIRE_SECONDS
    ELSE JWT_USER_REFRESH_TOKEN_EXPIRE_SECONDS

get_access_token_expire_delta(user) ==
    IF user.role = "Tech" THEN JWT_TECH_ACCESS_TOKEN_EXPIRE_SECONDS
    ELSE JWT_USER_ACCESS_TOKEN_EXPIRE_SECONDS

(* ---- flask_jwt_extended token creation, as called from views.py ---- *)
(* variant: the identity passed by the caller is dropped from the payload *)
create_access_token_anonymous(jti, identity, user_claims, expires_delta) ==
    [jti |-> jti, type |-> "access", identity |-> 0, claims |-> user_claims,
     iat |-> now, exp |-> now + expires_delta]

create_access_token(jti, identity, user_claims, expires_delta) ==
    [jti |-> jti, type |-> "access", identity |-> identity, claims |-> user_claims,
     iat |-> now, exp |-> now + expires_delta]

(* called without user_claims: the refresh payload carries none *)
create_refresh_token(jti, identity, expires_delta) ==
    [jti |-> jti, type |-> "refresh", identity |-> identity, claims |-> NoClaims,
     iat |-> now, exp |-> now + expires_delta]

(* ---- auth.helpers: the token ledger ---- *)
(* add_token_to_database: one TokenRecord, revoked = False, committed *)
add_token_to_database(l, tok) ==
    [j \in DOMAIN l \cup {tok.jti} |->
        IF j = tok.jti
        THEN [jti |-> tok.jti, type |-> tok.type, user_id |-> tok.identity,
              expires |-> tok.exp, revoked |-> FALSE]
        ELSE l[j]]

(* is_token_revoked: an unknown jti counts as revoked *)
is_token_revoked(decoded_token) ==
    IF decoded_token.jti \in DOMAIN ledger THEN ledger[decoded_token.jti].revoked ELSE TRUE

(* revoke_token: sets revoked on the record of (jti, user); no record, no change *)
revoke_token(l, jti, user_identity) ==
    [j \in DOMAIN l |->
        IF j = jti /\ l[j].user_id = user_identity THEN [l[j] EXCEPT !.revoked = TRUE] ELSE l[j]]

(* ---- views.py: loaders registered on the JWT manager ---- *)
(* variant: the identity is handed on without a lookup in the store *)
user_loader_callback_stub(identity) == {identity}

user_loader_callback(identity) == UserById(identity)

(* variant: the blacklist loader never reports a token as revoked *)
check_if_token_revoked_never(decoded_token) == FALSE

(* variant: the blacklist loader lets a token without a record through *)
check_if_token_revoked_open(decoded_token) ==
    decoded_token.jti \in DOMAIN ledger /\ ledger[decoded_token.jti].revoked

check_if_token_revoked(decoded_token) == is_token_revoked(decoded_token)

(* ---- flask_jwt_extended request verification ---- *)
(* decode (signature, exp), token type, blacklist loader, user loader *)
verify_jwt_in_request(tok, request_type) ==
    IF tok.type \notin {"access", "refresh"} THEN "Malformed"
    ELSE IF tok.exp <= now THEN "Expired"
    ELSE IF tok.type # request_type THEN "WrongToken"
    ELSE IF check_if_token_revoked(tok) THEN "Revoked"
    ELSE IF user_loader_callback(tok.identity) = {} THEN "UserLoadError"
    ELSE "ok"

jwt_required(tok) == verify_jwt_in_request(tok, "access")

(* variant: the refresh views accept whichever kind is presented *)
jwt_refresh_token_required_any(tok) == verify_jwt_in_request(tok, tok.type)

jwt_refresh_token_required(tok) == verify_jwt_in_request(tok, "refresh")

(* status code of a rejected verification *)
AuthCode(auth) == IF auth \in {"Malformed", "WrongToken"} THEN 422 ELSE 401

(* flask_jwt_extended accessors of the verified payload *)
get_raw_jwt(tok) == tok

get_jwt_identity(tok) == tok.identity

get_jwt_claims(tok) == tok.claims

(* what a handler run leaves behind: the verification result, the identity  *)
(* and claims it yielded, the status and the tokens handed back             *)
Response(view, tok, auth, code, msg, out) ==
    [view |-> view, tok |-> tok, auth |-> auth, code |-> code, msg |-> msg, out |-> out,
     identity |-> IF auth = "ok" THEN get_jwt_identity(tok) ELSE 0,
     claims |-> IF auth = "ok" THEN get_jwt_claims(tok) ELSE NoClaims]

(* verification failed: the view function is not entered, no jwt in the context *)
Rejected(auth) == Response("none", NoToken, auth, AuthCode(auth), auth, {})

(* login requests: not JSON, a key missing or empty, bad credentials, and good *)
(* credentials with each outcome of the two ledger writes                     *)
LoginRequests ==
    {[is_json |-> FALSE, username |-> "", password |-> "", fault |-> "none"],
     [is_json |-> TRUE, username |-> "", password |-> "pw", fault |-> "none"],
     [is_json |-> TRUE, username |-> "ann", password |-> "", fault |-> "none"],
     [is_json |-> TRUE, username |-> "ann", password |-> "bad", fault |-> "none"],
     [is_json |-> TRUE, username |-> "cy", password |-> "pw", fault |-> "none"]}
    \cup {[is_json |-> TRUE, username |-> un, password |-> "pw", fault |-> f] :
            un \in {"ann", "bob"}, f \in {"none", "first_write", "second_write"}}

(* bearer tokens a request can carry *)
Presentable == held \cup Unsaved \cup {Garbage}

Init ==
    /\ users = {[id |-> 1, uuid |-> "u1", username |-> "ann", email |-> "a@x",
                 password |-> "pw", role |-> "Admin", resources |-> <<>>],
                [id |-> 2, uuid |-> "u2", username |-> "bob", email |-> "b@x",
                 password |-> "pw", role |-> "User", resources |-> <<>>]}
    /\ nextId = 3
    /\ ledger = <<>>
    /\ held = {}
    /\ nextJti = 1
    /\ now = 0
    /\ resp = Response("none", NoToken, "none", 0, "", {})
    /\ inflight = [w \in Workers |-> Idle]

(* variant: a failed ledger write is swallowed and the tokens are handed back *)
login_issue_swallow(user, fault) ==
    LET access_token == create_access_token(nextJti, user.id, get_user_claims(user),
                                            get_access_token_expire_delta(user))
        refresh_token == create_refresh_token(nextJti + 1, user.id,
                                              get_refresh_expire_delta(user))
    IN /\ nextJti + 1 <= MaxTokens
       /\ nextJti' = nextJti + 2
       /\ ledger' = CASE fault = "first_write" -> ledger
                      [] fault = "second_write" -> add_token_to_database(ledger, access_token)
                      [] OTHER -> add_token_to_database(
                                     add_token_to_database(ledger, access_token), refresh_token)
       /\ held' = held \cup {access_token, refresh_token}
       /\ resp' = Response("login", NoToken, "none", 200, "", {access_token, refresh_token})

(* variant: only the access token is written to the ledger *)
login_issue_access_only(user, fault) ==
    LET access_token == create_access_token(nextJti, user.id, get_user_claims(user),
                                            get_access_token_expire_delta(user))
        refresh_token == create_refresh_token(nextJti + 1, user.id,
                                              get_refresh_expire_delta(user))
    IN /\ nextJti + 1 <= MaxTokens
       /\ nextJti' = nextJti + 2
       /\ CASE fault = "first_write" ->
                 /\ resp' = Response("login", NoToken, "none", 500, "Internal Server Error", {})
                 /\ UNCHANGED <<ledger, held>>
            [] fault = "second_write" ->
                 /\ ledger' = add_token_to_database(ledger, access_token)
                 /\ resp' = Response("login", NoToken, "none", 500, "Internal Server Error", {})
                 /\ UNCHANGED held
            [] OTHER ->
                 /\ ledger' = add_token_to_database(ledger, access_token)
                 /\ held' = held \cup {access_token, refresh_token}
                 /\ resp' = Response("login", NoToken, "none", 200, "",
                                     {access_token, refresh_token})

(* login, lines 75-85: both tokens are created, then written one after the *)
(* other, then handed back.  fault: which add_token_to_database call raises *)
login_issue(user, fault) ==
    LET access_token == create_access_token(nextJti, user.id, get_user_claims(user),
                                            get_access_token_expire_delta(user))
        refresh_token == create_refresh_token(nextJti + 1, user.id,
                                              get_refresh_expire_delta(user))
    IN /\ nextJti + 1 <= MaxTokens
       /\ nextJti' = nextJti + 2
       /\ CASE fault = "first_write" ->
                 /\ resp' = Response("login", NoToken, "none", 500, "Internal Server Error", {})
                 /\ UNCHANGED <<ledger, held>>
            [] fault = "second_write" ->
                 /\ ledger' = add_token_to_database(ledger, access_token)
                 /\ resp' = Response("login", NoToken, "none", 500, "Internal Server Error", {})
                 /\ UNCHANGED held
            [] OTHER ->
                 /\ ledger' = add_token_to_database(
                                 add_token_to_database(ledger, access_token), refresh_token)
                 /\ held' = held \cup {access_token, refresh_token}
                 /\ resp' = Response("login", NoToken, "none", 200, "",
                                     {access_token, refresh_token})

(* variant: an unknown username is answered differently from a wrong password *)
login_reveals_username(is_json, username, password, fault) ==
    /\ UNCHANGED <<users, nextId, now>>
    /\ IF ~is_json
       THEN /\ resp' = Response("login", NoToken, "none", 400, "Missing JSON in request", {})
            /\ UNCHANGED <<ledger, held, nextJti>>
       ELSE IF username = "" \/ password = ""
       THEN /\ resp' = Response("login", NoToken, "none", 400, "Missing username or password", {})
            /\ UNCHANGED <<ledger, held, nextJti>>
       ELSE IF {u \in users : u.username = username} = {}
       THEN /\ resp' = Response("login", NoToken, "none", 404, "Unknown user", {})
            /\ UNCHANGED <<ledger, held, nextJti>>
       ELSE IF login_internal_user(username, password) = {}
       THEN /\ resp' = Response("login", NoToken, "none", 400, "Bad credentials", {})
            /\ UNCHANGED <<ledger, held, nextJti>>
       ELSE login_issue(CHOOSE u \in login_internal_user(username, password) : TRUE, fault)

(* POST /auth/login *)
login(is_json, username, password, fault) ==
    /\ UNCHANGED <<users, nextId, now>>
    /\ IF ~is_json
       THEN /\ resp' = Response("login", NoToken, "none", 400, "Missing JSON in request", {})
            /\ UNCHANGED <<ledger, held, nextJti>>
       ELSE IF username = "" \/ password = ""
       THEN /\ resp' = Response("login", NoToken, "none", 400, "Missing username or password", {})
            /\ UNCHANGED <<ledger, held, nextJti>>
       ELSE IF login_internal_user(username, password) = {}
       THEN /\ resp' = Response("login", NoToken, "none", 400, "Bad credentials", {})
            /\ UNCHANGED <<ledger, held, nextJti>>
       ELSE login_issue(CHOOSE u \in login_internal_user(username, password) : TRUE, fault)

(* variant: the new access token is created without user_claims *)
refresh_no_claims(tok, fault) ==
    /\ UNCHANGED <<users, nextId, now>>
    /\ IF jwt_refresh_token_required(tok) # "ok"
       THEN /\ resp' = Rejected(jwt_refresh_token_required(tok))
            /\ UNCHANGED <<ledger, held, nextJti>>
       ELSE LET current_user == get_jwt_identity(tok)
                user == CHOOSE u \in UserById(current_user) : TRUE
                access_token == create_access_token(nextJti, current_user, NoClaims,
                                                    get_access_token_expire_delta(user))
            IN /\ nextJti <= MaxTokens
               /\ nextJti' = nextJti + 1
               /\ IF fault = "write"
                  THEN /\ resp' = Response("refresh", tok, "ok", 500, "Internal Server Error", {})
                       /\ UNCHANGED <<ledger, held>>
                  ELSE /\ ledger' = add_token_to_database(ledger, access_token)
                       /\ held' = held \cup {access_token}
                       /\ resp' = Response("refresh", tok, "ok", 200, "", {access_token})

(* variant: the presented refresh token is revoked when it is used (rotation) *)
refresh_rotating(tok, fault) ==
    /\ UNCHANGED <<users, nextId, now>>
    /\ IF jwt_refresh_token_required(tok) # "ok"
       THEN /\ resp' = Rejected(jwt_refresh_token_required(tok))
            /\ UNCHANGED <<ledger, held, nextJti>>
       ELSE LET current_user == get_jwt_identity(tok)
                user == CHOOSE u \in UserById(current_user) : TRUE
                access_token == create_access_token(nextJti, current_user, get_user_claims(user),
                                                    get_access_token_expire_delta(user))
            IN /\ nextJti <= MaxTokens
               /\ nextJti' = nextJti + 1
               /\ IF fault = "write"
                  THEN /\ resp' = Response("refresh", tok, "ok", 500, "Internal Server Error", {})
                       /\ UNCHANGED <<ledger, held>>
                  ELSE /\ ledger' = revoke_token(add_token_to_database(ledger, access_token),
                                                 get_raw_jwt(tok).jti, current_user)
                       /\ held' = held \cup {access_token}
                       /\ resp' = Response("refresh", tok, "ok", 200, "", {access_token})

(* POST /auth/refresh.  fault: add_token_to_database raises *)
refresh(tok, fault) ==
    /\ UNCHANGED <<users, nextId, now>>
    /\ IF jwt_refresh_token_required(tok) # "ok"
       THEN /\ resp' = Rejected(jwt_refresh_token_required(tok))
            /\ UNCHANGED <<ledger, held, nextJti>>
       ELSE LET current_user == get_jwt_identity(tok)
                user == CHOOSE u \in UserById(current_user) : TRUE
                access_token == create_access_token(nextJti, current_user, get_user_claims(user),
                                                    get_access_token_expire_delta(user))
            IN /\ nextJti <= MaxTokens
               /\ nextJti' = nextJti + 1
               /\ IF fault = "write"
                  THEN /\ resp' = Response("refresh", tok, "ok", 500, "Internal Server Error", {})
                       /\ UNCHANGED <<ledger, held>>
                  ELSE /\ ledger' = add_token_to_database(ledger, access_token)
                       /\ held' = held \cup {access_token}
                       /\ resp' = Response("refresh", tok, "ok", 200, "", {access_token})

(* variant: the handler answers 200 without touching the ledger *)
revoke_access_token_noop(tok) ==
    /\ UNCHANGED <<users, nextId, now, held, nextJti, ledger>>
    /\ IF jwt_required(tok) # "ok"
       THEN resp' = Rejected(jwt_required(tok))
       ELSE resp' = Response("revoke_access", tok, "ok", 200, "token revoked", {})

(* variant: every token of the caller is revoked, not only the presented one *)
revoke_access_token_cascade(tok) ==
    /\ UNCHANGED <<users, nextId, now, held, nextJti>>
    /\ IF jwt_required(tok) # "ok"
       THEN /\ resp' = Rejected(jwt_required(tok))
            /\ UNCHANGED ledger
       ELSE /\ ledger' = [j \in DOMAIN ledger |->
                            IF ledger[j].user_id = get_jwt_identity(tok)
                            THEN [ledger[j] EXCEPT !.revoked = TRUE] ELSE ledger[j]]
            /\ resp' = Response("revoke_access", tok, "ok", 200, "token revoked", {})

(* variant: the token is only decoded, neither its expiry nor its ledger record is checked *)
revoke_access_token_unchecked(tok) ==
    /\ UNCHANGED <<users, nextId, now, held, nextJti>>
    /\ IF tok.type # "access"
       THEN /\ resp' = Rejected(IF tok.type = "refresh" THEN "WrongToken" ELSE "Malformed")
            /\ UNCHANGED ledger
       ELSE /\ ledger' = revoke_token(ledger, get_raw_jwt(tok).jti, get_jwt_identity(tok))
            /\ resp' = Response("revoke_access", tok, "ok", 200, "token revoked", {})

(* DELETE /auth/revoke_access *)
revoke_access_token(tok) ==
    /\ UNCHANGED <<users, nextId, now, held, nextJti>>
    /\ IF jwt_required(tok) # "ok"
       THEN /\ resp' = Rejected(jwt_required(tok))
            /\ UNCHANGED ledger
       ELSE /\ ledger' = revoke_token(ledger, get_raw_jwt(tok).jti, get_jwt_identity(tok))
            /\ resp' = Response("revoke_access", tok, "ok", 200, "token revoked", {})

(* DELETE /auth/revoke_refresh *)
revoke_refresh_token(tok) ==
    /\ UNCHANGED <<users, nextId, now, held, nextJti>>
    /\ IF jwt_refresh_token_required(tok) # "ok"
       THEN /\ resp' = Rejected(jwt_refresh_token_required(tok))
            /\ UNCHANGED ledger
       ELSE /\ ledger' = revoke_token(ledger, get_raw_jwt(tok).jti, get_jwt_identity(tok))
            /\ resp' = Response("revoke_refresh", tok, "ok", 200, "token revoked", {})

(* GET /users/public_info: a protected read, jwt_required only *)
UserPublicInfo_get(tok, uuids) ==
    /\ UNCHANGED <<users, nextId, now, ledger, held, nextJti>>
    /\ IF jwt_required(tok) # "ok"
       THEN resp' = Rejected(jwt_required(tok))
       ELSE IF Cardinality({u \in users : u.uuid \in uuids}) # Cardinality(uuids)
       THEN resp' = Response("public_info", tok, "ok", 404, "Not Found", {})
       ELSE resp' = Response("public_info", tok, "ok", 200, "", {})

(* ---- services.user_service, as used by UserResource ---- *)
is_login_free(username, user_id) ==
    \A u \in users : u.username = username => u.id = user_id

is_email_free(email, user_id) ==
    \A u \in users : u.email = email => u.id = user_id

create_internal_user(id, external_uuid, dto) ==
    [id |-> id, uuid |-> external_uuid, username |-> dto.username, email |-> dto.email,
     password |-> dto.password,
     role |-> IF "role" \in dto.has THEN dto.role ELSE "User",
     resources |-> IF "resources" \in dto.has THEN dto.resources ELSE <<>>]

update_internal_user(user, dto) ==
    [id |-> user.id, uuid |-> user.uuid,
     username |-> IF "username" \in dto.has THEN dto.username ELSE user.username,
     email |-> IF "email" \in dto.has THEN dto.email ELSE user.email,
     password |-> IF "password" \in dto.has THEN dto.password ELSE user.password,
     role |-> IF "role" \in dto.has THEN dto.role ELSE user.role,
     resources |-> IF "resources" \in dto.has THEN dto.resources ELSE user.resources]

(* commons.decorators.admin_role: the role claim of the verified token *)
admin_role(tok) == get_jwt_claims(tok).role = "Admin"

(* request bodies: has = the keys present in the JSON *)
Dto(has, username, email, password, role, resources) ==
    [has |-> has, username |-> username, email |-> email, password |-> password,
     role |-> role, resources |-> resources]

(* bodies that change the grants of a principal: a demotion, and a promotion *)
(* to the elevated role together with a resource grant                        *)
GrantDtos ==
    {Dto({"role"}, "", "", "", "User", <<>>),
     Dto({"role", "resources"}, "", "", "", "Tech", <<"r1">>)}

(* variant: the update branch asks whether the name is free for nobody in particular *)
UserResource_put_no_owner(tok, user_uuid, dto) ==
    /\ UNCHANGED <<now, ledger, held, nextJti>>
    /\ IF jwt_required(tok) # "ok"
       THEN /\ resp' = Rejected(jwt_required(tok))
            /\ UNCHANGED <<users, nextId>>
       ELSE IF ~admin_role(tok)
       THEN /\ resp' = Response("user_put", tok, "ok", 403, "Forbidden", {})
            /\ UNCHANGED <<users, nextId>>
       ELSE IF UserByUuid(user_uuid) = {}
       THEN IF ~({"username", "email", "password"} \subseteq dto.has)
            THEN /\ resp' = Response("user_put", tok, "ok", 422, "ValidationError", {})
                 /\ UNCHANGED <<users, nextId>>
            ELSE IF ~is_login_free(dto.username, 0)
            THEN /\ resp' = Response("user_put", tok, "ok", 409, "Username already exists", {})
                 /\ UNCHANGED <<users, nextId>>
            ELSE IF ~is_email_free(dto.email, 0)
            THEN /\ resp' = Response("user_put", tok, "ok", 409, "Email already exists", {})
                 /\ UNCHANGED <<users, nextId>>
            ELSE /\ nextId <= MaxUserId
                 /\ users' = users \cup {create_internal_user(nextId, user_uuid, dto)}
                 /\ nextId' = nextId + 1
                 /\ resp' = Response("user_put", tok, "ok", 201, "user created", {})
       ELSE LET user == CHOOSE u \in UserByUuid(user_uuid) : TRUE
            IN IF "username" \in dto.has /\ ~is_login_free(dto.username, 0)
               THEN /\ resp' = Response("user_put", tok, "ok", 409, "Username already exists", {})
                    /\ UNCHANGED <<users, nextId>>
               ELSE IF "email" \in dto.has /\ ~is_email_free(dto.email, 0)
               THEN /\ resp' = Response("user_put", tok, "ok", 409, "Email already exists", {})
                    /\ UNCHANGED <<users, nextId>>
               ELSE /\ users' = (users \ {user}) \cup {update_internal_user(user, dto)}
                       /\ resp' = Response("user_put", tok, "ok", 200, "user updated", {})
                    /\ UNCHANGED nextId

(* PUT /users/<user_uuid>: create or update *)
UserResource_put(tok, user_uuid, dto) ==
    /\ UNCHANGED <<now, ledger, held, nextJti>>
    /\ IF jwt_required(tok) # "ok"
       THEN /\ resp' = Rejected(jwt_required(tok))
            /\ UNCHANGED <<users, nextId>>
       ELSE IF ~admin_role(tok)
       THEN /\ resp' = Response("user_put", tok, "ok", 403, "Forbidden", {})
            /\ UNCHANGED <<users, nextId>>
       ELSE IF UserByUuid(user_uuid) = {}
       THEN IF ~({"username", "email", "password"} \subseteq dto.has)
            THEN /\ resp' = Response("user_put", tok, "ok", 422, "ValidationError", {})
                 /\ UNCHANGED <<users, nextId>>
            ELSE IF ~is_login_free(dto.username, 0)
            THEN /\ resp' = Response("user_put", tok, "ok", 409, "Username already exists", {})
                 /\ UNCHANGED <<users, nextId>>
            ELSE IF ~is_email_free(dto.email, 0)
            THEN /\ resp' = Response("user_put", tok, "ok", 409, "Email already exists", {})
                 /\ UNCHANGED <<users, nextId>>
            ELSE /\ nextId <= MaxUserId
                 /\ users' = users \cup {create_internal_user(nextId, user_uuid, dto)}
                 /\ nextId' = nextId + 1
                 /\ resp' = Response("user_put", tok, "ok", 201, "user created", {})
       ELSE LET user == CHOOSE u \in UserByUuid(user_uuid) : TRUE
            IN IF "username" \in dto.has /\ ~is_login_free(dto.username, user.id)
               THEN /\ resp' = Response("user_put", tok, "ok", 409, "Username already exists", {})
                    /\ UNCHANGED <<users, nextId>>
               ELSE IF "email" \in dto.has /\ ~is_email_free(dto.email, user.id)
               THEN /\ resp' = Response("user_put", tok, "ok", 409, "Email already exists", {})
                    /\ UNCHANGED <<users, nextId>>
               ELSE /\ users' = (users \ {user}) \cup {update_internal_user(user, dto)}
                       /\ resp' = Response("user_put", tok, "ok", 200, "user updated", {})
                    /\ UNCHANGED nextId

(* DELETE /users/<user_uuid> *)
UserResource_delete(tok, user_uuid) ==
    /\ UNCHANGED <<now, ledger, held, nextJti, nextId>>
    /\ IF jwt_required(tok) # "ok"
       THEN /\ resp' = Rejected(jwt_required(tok))
            /\ UNCHANGED users
       ELSE IF ~admin_role(tok)
       THEN /\ resp' = Response("user_delete", tok, "ok", 403, "Forbidden", {})
            /\ UNCHANGED users
       ELSE IF UserByUuid(user_uuid) = {}
       THEN /\ resp' = Response("user_delete", tok, "ok", 404, "Not Found", {})
            /\ UNCHANGED users
       ELSE /\ users' = users \ UserByUuid(user_uuid)
            /\ resp' = Response("user_delete", tok, "ok", 200, "user deleted", {})

(* the clock *)
Tick ==
    /\ now < MaxTime
    /\ now' = now + 1
    /\ UNCHANGED <<users, nextId, ledger, held, nextJti, resp>>

Next ==
    \/ \E req \in LoginRequests :
          login(req.is_json, req.username, req.password, req.fault) /\ UNCHANGED inflight
    \/ \E tok \in Presentable, fault \in {"none", "write"} :
          refresh(tok, fault) /\ UNCHANGED inflight
    \/ \E tok \in Presentable : revoke_access_token(tok) /\ UNCHANGED inflight
    \/ \E tok \in Presentable : revoke_refresh_token(tok) /\ UNCHANGED inflight
    \/ \E tok \in Presentable, uuids \in {{"u1"}, UUIDs} :
          UserPublicInfo_get(tok, uuids) /\ UNCHANGED inflight
    \/ \E tok \in Presentable, user_uuid \in {"u1"}, dto \in GrantDtos :
          UserResource_put(tok, user_uuid, dto) /\ UNCHANGED inflight
    \/ \E tok \in Presentable, user_uuid \in {"u1"} :
          UserResource_delete(tok, user_uuid) /\ UNCHANGED inflight
    \/ Tick /\ UNCHANGED inflight

Spec == Init /\ [][Next]_vars

(* ---- local login with one principal of every role ---- *)
(* the identity store after an administrator has added a Tech principal *)
InitLogin ==
    /\ users = {[id |-> 1, uuid |-> "u1", username |-> "ann", email |-> "a@x",
                 password |-> "pw", role |-> "Admin", resources |-> <<>>],
                [id |-> 2, uuid |-> "u2", username |-> "bob", email |-> "b@x",
                 password |-> "pw", role |-> "User", resources |-> <<>>],
                [id |-> 3, uuid |-> "u3", username |-> "tess", email |-> "t@x",
                 password |-> "pw", role |-> "Tech", resources |-> <<"r1">>]}
    /\ nextId = 4
    /\ ledger = <<>>
    /\ held = {}
    /\ nextJti = 1
    /\ now = 0
    /\ resp = Response("none", NoToken, "none", 0, "", {})
    /\ inflight = [w \in Workers |-> Idle]

TechLoginRequests ==
    LoginRequests \cup
    {[is_json |-> TRUE, username |-> "tess", password |-> pw, fault |-> "none"] :
        pw \in {"pw", "bad"}}

NextLogin ==
    \/ \E req \in TechLoginRequests :
          login(req.is_json, req.username, req.password, req.fault) /\ UNCHANGED inflight
    \/ \E tok \in Presentable : refresh(tok, "none") /\ UNCHANGED inflight
    \/ Tick /\ UNCHANGED inflight

SpecLogin == InitLogin /\ [][NextLogin]_vars

(* ---- federated login: stories.google_login.GoogleLoginStory ---- *)
(* uuid given to the principal stored under a new internal id *)
NewUuid(id) == CASE id = 3 -> "u3" [] id = 4 -> "u4" [] OTHER -> "u5"

(* the tag the story ends with: the failure exits of ValidatingInput,      *)
(* ExchangingCode and ResolvingPrincipal in that order, else success       *)
GoogleLoginStory_result(user_data, exchange, profile) ==
    CASE user_data.code = "" -> "missing_authorization_code"
      [] exchange # "ok" -> "provider_exchange_failed"
      [] profile.email = "" -> "provider_profile_invalid"
      [] OTHER -> "success"

(* ResolvingPrincipal: the local principal matching the profile, or a new  *)
(* one with the default role and no resource grants                        *)
GoogleLoginStory_resolve(profile) ==
    LET existing == {u \in users : u.email = profile.email}
    IN IF existing # {} THEN CHOOSE u \in existing : TRUE
       ELSE [id |-> nextId, uuid |-> NewUuid(nextId), username |-> profile.email,
             email |-> profile.email, password |-> "", role |-> "User",
             resources |-> <<>>]

(* story.login.run: what the run does to the stores, and the token pair of *)
(* a successful run                                                        *)
GoogleLoginStory_value(user_data, exchange, profile) ==
    IF GoogleLoginStory_result(user_data, exchange, profile) # "success" THEN {}
    ELSE LET user == GoogleLoginStory_resolve(profile)
         IN {create_access_token(nextJti, user.id, get_user_claims(user),
                                 get_access_token_expire_delta(user)),
             create_refresh_token(nextJti + 1, user.id, get_refresh_expire_delta(user))}

GoogleLoginStory_login(user_data, exchange, profile) ==
    IF GoogleLoginStory_result(user_data, exchange, profile) # "success"
    THEN UNCHANGED <<users, nextId, ledger, held, nextJti>>
    ELSE LET user == GoogleLoginStory_resolve(profile)
             value == GoogleLoginStory_value(user_data, exchange, profile)
             access_token == CHOOSE t \in value : t.type = "access"
             refresh_token == CHOOSE t \in value : t.type = "refresh"
         IN /\ user \notin users => nextId <= MaxUserId
            /\ nextJti + 1 <= MaxTokens
            /\ users' = users \cup {user}
            /\ nextId' = IF user \in users THEN nextId ELSE nextId + 1
            /\ ledger' = add_token_to_database(
                            add_token_to_database(ledger, access_token), refresh_token)
            /\ held' = held \cup value
            /\ nextJti' = nextJti + 2

(* variant: a failed run is not told from a successful one *)
login_google_unchecked(is_json, user_data, exchange, profile) ==
    /\ UNCHANGED now
    /\ IF ~is_json
       THEN /\ resp' = Response("login_google", NoToken, "none", 400, "Missing JSON in request", {})
            /\ UNCHANGED <<users, nextId, ledger, held, nextJti>>
       ELSE /\ GoogleLoginStory_login(user_data, exchange, profile)
            /\ resp' = Response("login_google", NoToken, "none", 200, "",
                                GoogleLoginStory_value(user_data, exchange, profile))

(* variant: every failed run is answered 500 with its reason *)
login_google_all_500(is_json, user_data, exchange, profile) ==
    /\ UNCHANGED now
    /\ IF ~is_json
       THEN /\ resp' = Response("login_google", NoToken, "none", 400, "Missing JSON in request", {})
            /\ UNCHANGED <<users, nextId, ledger, held, nextJti>>
       ELSE LET result == GoogleLoginStory_result(user_data, exchange, profile)
            IN /\ GoogleLoginStory_login(user_data, exchange, profile)
               /\ resp' = IF result # "success"
                          THEN Response("login_google", NoToken, "none", 500, result, {})
                          ELSE Response("login_google", NoToken, "none", 200, "",
                                        GoogleLoginStory_value(user_data, exchange, profile))

(* POST /auth/login/google *)
login_google(is_json, user_data, exchange, profile) ==
    /\ UNCHANGED now
    /\ IF ~is_json
       THEN /\ resp' = Response("login_google", NoToken, "none", 400, "Missing JSON in request", {})
            /\ UNCHANGED <<users, nextId, ledger, held, nextJti>>
       ELSE LET result == GoogleLoginStory_result(user_data, exchange, profile)
            IN /\ GoogleLoginStory_login(user_data, exchange, profile)
               /\ resp' = IF result = "missing_authorization_code"
                          THEN Response("login_google", NoToken, "none", 400,
                                        "Missing authorization code", {})
                          ELSE IF result # "success"
                          THEN Response("login_google", NoToken, "none", 500, result, {})
                          ELSE Response("login_google", NoToken, "none", 200, "",
                                        GoogleLoginStory_value(user_data, exchange, profile))

(* federated login requests: the body, and what the provider answers *)
GoogleRequests ==
    {[is_json |-> FALSE, user_data |-> [code |-> ""], exchange |-> "ok", profile |-> [email |-> ""]],
     [is_json |-> TRUE, user_data |-> [code |-> ""], exchange |-> "ok", profile |-> [email |-> "g@x"]],
     [is_json |-> TRUE, user_data |-> [code |-> "c"], exchange |-> "failed", profile |-> [email |-> "g@x"]],
     [is_json |-> TRUE, user_data |-> [code |-> "c"], exchange |-> "ok", profile |-> [email |-> ""]],
     [is_json |-> TRUE, user_data |-> [code |-> "c"], exchange |-> "ok", profile |-> [email |-> "a@x"]],
     [is_json |-> TRUE, user_data |-> [code |-> "c"], exchange |-> "ok", profile |-> [email |-> "g@x"]]}

NextGoogle ==
    \/ \E req \in GoogleRequests :
          login_google(req.is_json, req.user_data, req.exchange, req.profile)
             /\ UNCHANGED inflight
    \/ \E tok \in Presentable : refresh(tok, "none") /\ UNCHANGED inflight
    \/ \E tok \in Presentable : UserPublicInfo_get(tok, UUIDs) /\ UNCHANGED inflight
    \/ Tick /\ UNCHANGED inflight

SpecGoogle == Init /\ [][NextGoogle]_vars

(* ---- the user resources with both principals logged in ---- *)
(* the token pair login hands to a principal.  The sessions open at the    *)
(* start were issued before the counter of this exploration started: their *)
(* jtis lie outside its range, and one more token can be issued            *)
Session(user, jti) ==
    {create_access_token(jti, user.id, get_user_claims(user),
                         get_access_token_expire_delta(user)),
     create_refresh_token(jti + 1, user.id, get_refresh_expire_delta(user))}

InitUsers ==
    /\ users = {[id |-> 1, uuid |-> "u1", username |-> "ann", email |-> "a@x",
                 password |-> "pw", role |-> "Admin", resources |-> <<>>],
                [id |-> 2, uuid |-> "u2", username |-> "bob", email |-> "b@x",
                 password |-> "pw", role |-> "User", resources |-> <<>>]}
    /\ nextId = 3
    /\ nextJti = MaxTokens
    /\ now = 0
    /\ held = UNION {Session(u, 10 * u.id + 1) : u \in users}
    /\ ledger = [j \in {t.jti : t \in held} |->
                   LET t == CHOOSE x \in held : x.jti = j
                   IN [jti |-> j, type |-> t.type, user_id |-> t.identity,
                       expires |-> t.exp, revoked |-> FALSE]]
    /\ resp = Response("none", NoToken, "none", 0, "", {})
    /\ inflight = [w \in Workers |-> Idle]

(* external identifiers PUT and DELETE are addressed to *)
PutTargets == UUIDs \cup {"u3"}

(* bodies of PUT: with every required key (a free pair, ann's username,  *)
(* ann's email) and partial ones naming ann's username and ann's email   *)
UserDtos ==
    {Dto({"username", "email", "password"}, un, em, "pw", "User", <<>>) :
        <<un, em>> \in {<<"cy", "c@x">>, <<"ann", "c@x">>, <<"cy", "a@x">>}}
    \cup {Dto({"username"}, "ann", "", "", "User", <<>>),
          Dto({"email"}, "", "a@x", "", "User", <<>>)}

NextUsers ==
    \/ \E tok \in Presentable, user_uuid \in PutTargets, dto \in UserDtos :
          UserResource_put(tok, user_uuid, dto) /\ UNCHANGED inflight
    \/ \E tok \in Presentable, user_uuid \in PutTargets :
          UserResource_delete(tok, user_uuid) /\ UNCHANGED inflight
    \/ \E tok \in Presentable : UserPublicInfo_get(tok, UUIDs) /\ UNCHANGED inflight
    \/ \E tok \in Presentable : refresh(tok, "none") /\ UNCHANGED inflight
    \/ Tick /\ UNCHANGED inflight

SpecUsers == InitUsers /\ [][NextUsers]_vars

(* ---- two requests verified concurrently ---- *)
(* jwt_required on a worker, one step per read of shared state: the token  *)
(* is decoded (signature, expiry against the clock, token type), then the  *)
(* blacklist loader reads the ledger, then the user loader reads the store *)
Verified(w, tok, auth) ==
    [inflight EXCEPT ![w] = [pc |-> "done", tok |-> tok, auth |-> auth,
                             identity |-> IF auth = "ok" THEN get_jwt_identity(tok) ELSE 0,
                             claims |-> IF auth = "ok" THEN get_jwt_claims(tok)
                                        ELSE NoClaims]]

decode_jwt_from_request(w, tok) ==
    /\ inflight[w].pc = "idle"
    /\ inflight' =
          IF tok.type \notin {"access", "refresh"} THEN Verified(w, tok, "Malformed")
          ELSE IF tok.exp <= now THEN Verified(w, tok, "Expired")
          ELSE IF tok.type # "access" THEN Verified(w, tok, "WrongToken")
          ELSE [inflight EXCEPT ![w] = [Idle EXCEPT !.pc = "decoded", !.tok = tok]]
    /\ UNCHANGED <<users, nextId, ledger, held, nextJti, now, resp>>

(* variant: the blacklist check uses the token up *)
verify_token_not_blacklisted_once(w) ==
    /\ inflight[w].pc = "decoded"
    /\ IF check_if_token_revoked(inflight[w].tok)
       THEN /\ inflight' = Verified(w, inflight[w].tok, "Revoked")
            /\ UNCHANGED ledger
       ELSE /\ inflight' = [inflight EXCEPT ![w].pc = "checked"]
            /\ ledger' = revoke_token(ledger, inflight[w].tok.jti, inflight[w].tok.identity)
    /\ UNCHANGED <<users, nextId, held, nextJti, now, resp>>

verify_token_not_blacklisted(w) ==
    /\ inflight[w].pc = "decoded"
    /\ inflight' = IF check_if_token_revoked(inflight[w].tok)
                   THEN Verified(w, inflight[w].tok, "Revoked")
                   ELSE [inflight EXCEPT ![w].pc = "checked"]
    /\ UNCHANGED <<users, nextId, ledger, held, nextJti, now, resp>>

load_user(w) ==
    /\ inflight[w].pc = "checked"
    /\ inflight' = IF user_loader_callback(get_jwt_identity(inflight[w].tok)) = {}
                   THEN Verified(w, inflight[w].tok, "UserLoadError")
                   ELSE Verified(w, inflight[w].tok, "ok")
    /\ UNCHANGED <<users, nextId, ledger, held, nextJti, now, resp>>

(* the request is answered and the worker takes the next one *)
request_done(w) ==
    /\ inflight[w].pc = "done"
    /\ inflight' = [inflight EXCEPT ![w] = Idle]
    /\ UNCHANGED <<users, nextId, ledger, held, nextJti, now, resp>>

NextConcurrent ==
    \/ \E w \in Workers, tok \in Presentable : decode_jwt_from_request(w, tok)
    \/ \E w \in Workers : verify_token_not_blacklisted(w)
    \/ \E w \in Workers : load_user(w)
    \/ \E w \in Workers : request_done(w)
    \/ \E tok \in Presentable : revoke_access_token(tok) /\ UNCHANGED inflight
    \/ \E tok \in Presentable : UserResource_delete(tok, "u2") /\ UNCHANGED inflight
    \/ Tick /\ UNCHANGED inflight

SpecConcurrent == InitUsers /\ [][NextConcurrent]_vars



(***************************************************************************)
(* Properties                                                              *)
(***************************************************************************)
HasRecord(t) == t.jti \in DOMAIN ledger

RevokedFlag(t) == HasRecord(t) /\ ledger[t.jti].revoked

Unexpired(t) == now < t.exp

(* the verification a view of the given kind runs on a presented token *)
Verify(t, kind) == IF kind = "access" THEN jwt_required(t) ELSE jwt_refresh_token_required(t)

Kinds == {"access", "refresh"}

(* the claim set of a principal record *)
BuildClaims(u) == [role |-> u.role, uuid |-> u.uuid, resources |-> u.resources]

(* the access lifetime of the two tiers *)
AccessTTL(role) ==
    IF role = "Tech" THEN JWT_TECH_ACCESS_TOKEN_EXPIRE_SECONDS
    ELSE JWT_USER_ACCESS_TOKEN_EXPIRE_SECONDS

RevokeViews == {"revoke_access", "revoke_refresh"}

RevokeCompleted(r) == r.view \in RevokeViews /\ r.code = 200

RefreshCompleted(r) == r.view = "refresh" /\ r.code = 200

(* the token kind each view requires *)
RequiredKind(view) == IF view \in {"refresh", "revoke_refresh"} THEN "refresh" ELSE "access"

(* C1, as stated: a handed-out token presented to an operation of its own  *)
(* kind is admitted exactly when it is unexpired and its record is not     *)
(* revoked; expired gives Expired, otherwise revoked gives Revoked.        *)
C1_UsableIffUnexpiredUnrevoked ==
    \A t \in held :
        /\ (Verify(t, t.type) = "ok") <=> (Unexpired(t) /\ HasRecord(t) /\ ~RevokedFlag(t))
        /\ ~Unexpired(t) => Verify(t, t.type) = "Expired"
        /\ (Unexpired(t) /\ RevokedFlag(t)) => Verify(t, t.type) = "Revoked"

(* C1, amended: a handed-out token is admitted by an operation exactly     *)
(* when it is unexpired, its record is not revoked, its kind is the kind   *)
(* the operation requires and its principal still exists; expired gives    *)
(* Expired, otherwise (kind matching) revoked gives Revoked.               *)
C1_Admission ==
    \A t \in held : \A kind \in Kinds :
        /\ (Verify(t, kind) = "ok") <=>
              (/\ Unexpired(t)
               /\ HasRecord(t) /\ ~RevokedFlag(t)
               /\ t.type = kind
               /\ \E u \in users : u.id = t.identity)
        /\ ~Unexpired(t) => Verify(t, kind) = "Expired"
        /\ (Unexpired(t) /\ t.type = kind /\ RevokedFlag(t)) => Verify(t, kind) = "Revoked"

(* a protected read was admitted while another handed-out token is rejected as revoked *)
C1_Witness ==
    /\ resp.view = "public_info" /\ resp.code = 200 /\ resp.tok \in held
    /\ \E t \in held : RevokedFlag(t) /\ Verify(t, t.type) = "Revoked"

(* C2, as stated: once a token is revoked, every later validation of it    *)
(* fails with Revoked.                                                     *)
C2_AlwaysRevoked ==
    \A t \in held : RevokedFlag(t) => Verify(t, t.type) = "Revoked"

(* C2, amended: a completed revoke sets the flag, the flag never returns   *)
(* to false, and the token is never admitted again by any operation: it    *)
(* is rejected as Revoked while unexpired (by operations of its kind) and  *)
(* as Expired afterwards; a further revoke request with it is rejected     *)
(* and changes nothing.                                                    *)
C2_Permanent ==
    [][/\ (resp' # resp /\ RevokeCompleted(resp')) =>
             \E t \in held : t = resp'.tok /\ RevokedFlag(t)'
       /\ \A t \in held :
            RevokedFlag(t) =>
               /\ RevokedFlag(t)'
               /\ \A kind \in Kinds : Verify(t, kind)' # "ok"
               /\ Verify(t, t.type)' = IF Unexpired(t)' THEN "Revoked" ELSE "Expired"
       /\ (resp' # resp /\ resp'.auth = "Revoked") => ledger' = ledger]_vars

(* a revoked token was presented again and rejected as Revoked *)
C2_Witness ==
    /\ resp.auth = "Revoked"
    /\ \E t \in held : RevokedFlag(t) /\ Unexpired(t)

(* C3: every token a caller holds has a ledger record describing it, and   *)
(* the tokens of the latest response are recorded with revoked = false,    *)
(* whichever ledger write of a login or refresh fails.                     *)
C3_HeldTokensRecorded ==
    /\ \A t \in held :
          /\ HasRecord(t)
          /\ ledger[t.jti].type = t.type
          /\ ledger[t.jti].user_id = t.identity
          /\ ledger[t.jti].expires = t.exp
    /\ \A t \in resp.out : t \in held /\ HasRecord(t) /\ ~ledger[t.jti].revoked

(* a ledger write failed after tokens had been handed out earlier: the     *)
(* token created by the failed request reached nobody                      *)
C3_Witness ==
    /\ resp.code = 500
    /\ held # {}
    /\ nextJti > Cardinality(held) + 1

(* C4: tokens have distinct jti, and a completed revoke changes the record *)
(* of the presented token only: every other record, and the verification   *)
(* result of every other handed-out token, is as before.                   *)
C4_IndependentRevocation ==
    [][/\ \A t1, t2 \in held' : t1.jti = t2.jti => t1 = t2
       /\ (resp' # resp /\ RevokeCompleted(resp')) =>
             /\ DOMAIN ledger' = DOMAIN ledger
             /\ \A j \in DOMAIN ledger : j # resp'.tok.jti => ledger'[j] = ledger[j]
             /\ \A t \in held : t # resp'.tok =>
                   \A kind \in Kinds : Verify(t, kind)' = Verify(t, kind)]_vars

(* an access token was revoked and the refresh token of the same login is still admitted *)
C4_Witness ==
    /\ resp.view = "revoke_access" /\ resp.code = 200 /\ RevokedFlag(resp.tok)
    /\ \E r \in held :
          /\ r.type = "refresh" /\ r.jti = resp.tok.jti + 1 /\ r.iat = resp.tok.iat
          /\ ~RevokedFlag(r) /\ Verify(r, "refresh") = "ok"

C6_RefreshUsesCurrentPrincipal ==
    RefreshCompleted(resp) =>
        /\ resp.out # {}
        /\ \E u \in users :
              /\ u.id = resp.tok.identity
              /\ \A t \in resp.out :
                    /\ t.type = "access"
                    /\ t.identity = u.id
                    /\ t.claims = BuildClaims(u)
                    /\ t.exp = t.iat + AccessTTL(u.role)

(* a refresh whose new access token carries another role than the access   *)
(* token issued together with the refresh token                            *)
C6_Witness ==
    /\ RefreshCompleted(resp)
    /\ \E a \in held, t \in resp.out :
          /\ a.type = "access" /\ a.jti = resp.tok.jti - 1 /\ a.iat = resp.tok.iat
          /\ t.claims.role # a.claims.role
          /\ t.exp - t.iat # a.exp - a.iat

(* C7: a completed refresh adds exactly one access record with a fresh jti *)
(* and revoked = false, leaves every existing record as it was, and the    *)
(* presented refresh token is still admitted afterwards.                   *)
C7_RefreshAddsOneRecord ==
    [][(resp' # resp /\ RefreshCompleted(resp')) =>
          \E t \in resp'.out :
             /\ resp'.out = {t}
             /\ t.jti \notin DOMAIN ledger
             /\ DOMAIN ledger' = DOMAIN ledger \cup {t.jti}
             /\ ledger'[t.jti] = [jti |-> t.jti, type |-> "access", user_id |-> resp'.tok.identity,
                                  expires |-> t.exp, revoked |-> FALSE]
             /\ \A j \in DOMAIN ledger : ledger'[j] = ledger[j]
             /\ held' = held \cup {t}
             /\ \E r \in held : r = resp'.tok /\ jwt_refresh_token_required(r)' = "ok"]_vars

(* after a refresh the presented refresh token is unrevoked and admitted again *)
C7_Witness ==
    /\ RefreshCompleted(resp)
    /\ ~RevokedFlag(resp.tok)
    /\ jwt_refresh_token_required(resp.tok) = "ok"
    /\ Cardinality(DOMAIN ledger) = 3

C9_RevokeNeedsValidToken ==
    [][/\ (resp' # resp /\ RevokeCompleted(resp')) =>
             /\ resp'.tok \in held
             /\ Unexpired(resp'.tok)
             /\ HasRecord(resp'.tok) /\ ~RevokedFlag(resp'.tok)
             /\ ledger' = [ledger EXCEPT ![resp'.tok.jti].revoked = TRUE]
       /\ (\E j \in DOMAIN ledger : j \notin DOMAIN ledger' \/ ledger'[j] # ledger[j]) =>
             (resp' # resp /\ RevokeCompleted(resp'))
       /\ (resp' # resp /\ resp'.code \in {401, 422}) => (ledger' = ledger /\ held' = held)]_vars

(* a request with an expired, unrevoked token was rejected and nothing is revoked *)
C9_Witness ==
    /\ resp.auth = "Expired"
    /\ \E t \in held : ~Unexpired(t)
    /\ \A j \in DOMAIN ledger : ~ledger[j].revoked

(* C10: a view runs only for a token of the kind it requires (refresh and  *)
(* revoke_refresh: refresh; every other protected view: access); a token   *)
(* of the other kind is rejected and the request changes nothing.          *)
C10_KindsNotInterchangeable ==
    [][/\ resp'.auth = "ok" => resp'.tok.type = RequiredKind(resp'.view)
       /\ \A t \in held' : \A kind \in Kinds : Verify(t, kind)' = "ok" => t.type = kind
       /\ (resp' # resp /\ resp'.auth = "WrongToken") =>
             UNCHANGED <<users, nextId, ledger, held, nextJti>>]_vars

(* an unexpired token of the wrong kind was presented and rejected *)
C10_Witness ==
    /\ resp.auth = "WrongToken"
    /\ resp.code = 422
    /\ \E t \in held : Unexpired(t) /\ ~RevokedFlag(t)
(* ---- C11 ---- *)
(* the identity claim (sub) as it is serialised in the payload *)
Sub(t) == ToString(get_jwt_identity(t))

Usernames == {"ann", "bob", "tess", "cy"}

(* C12: from any state, a login naming an existing principal with a wrong   *)
(* password and a login naming a username nobody has lead to the same       *)
(* outcome: a step is one exactly if it is the other (same status, same     *)
(* body, same store, ledger and tokens afterwards).                         *)
C12_BadCredentialsIndistinguishable ==
    [][\A u \in users, ghost \in Usernames \ {x.username : x \in users} :
          u.password # "bad" =>
             (login(TRUE, u.username, "bad", "none") <=> login(TRUE, ghost, "pw", "none"))]_vars

(* after a successful login, a login has been refused with Bad credentials *)
(* while principals exist whose password the request could have missed     *)
C12_Witness ==
    /\ resp.view = "login" /\ resp.code = 400 /\ resp.msg = "Bad credentials"
    /\ held # {}
    /\ \E u \in users : u.username = "ann" /\ u.password # "bad"
    /\ "cy" \notin {x.username : x \in users}

(* ---- C13, C14 ---- *)
ProviderFailures == {"provider_exchange_failed", "provider_profile_invalid"}

GoogleFailed(r, kind) == r.view = "login_google" /\ r.msg = kind /\ r.code = 500

(* C13: a federated login whose JSON body has no authorization code is     *)
(* answered 400 "Missing authorization code", hands back no token and      *)
(* leaves the ledger, the identity store and the token counter unchanged.  *)
C13_MissingCodeIssuesNothing ==
    [][\A req \in GoogleRequests :
          (/\ req.is_json /\ req.user_data.code = ""
           /\ login_google(req.is_json, req.user_data, req.exchange, req.profile))
          => /\ resp'.code = 400 /\ resp'.msg = "Missing authorization code"
             /\ resp'.out = {}
             /\ UNCHANGED <<ledger, held, users, nextId, nextJti>>]_vars

(* tokens were issued before; the last federated login carried no code *)
C13_Witness ==
    /\ resp.view = "login_google" /\ resp.code = 400
    /\ resp.msg = "Missing authorization code"
    /\ DOMAIN ledger # {} /\ held # {}

(* C14: a federated login writes TokenRecords only in a run whose code     *)
(* exchange succeeded and whose profile resolved to a principal of the     *)
(* store; a run ending in provider_exchange_failed or                      *)
(* provider_profile_invalid leaves the ledger unchanged; every run on a    *)
(* JSON body ends either with both tokens or with one of the three failure *)
(* kinds and no token.                                                     *)
C14_IssuanceAfterResolution ==
    [][\A req \in GoogleRequests :
          (req.is_json /\ login_google(req.is_json, req.user_data, req.exchange, req.profile))
          => /\ ledger' # ledger =>
                  /\ req.user_data.code # "" /\ req.exchange = "ok" /\ req.profile.email # ""
                  /\ \E u \in users' :
                        /\ u.email = req.profile.email
                        /\ \A t \in resp'.out : t.identity = u.id
                  /\ resp'.code = 200
             /\ (GoogleFailed(resp', "provider_exchange_failed")
                    \/ GoogleFailed(resp', "provider_profile_invalid"))
                  => UNCHANGED <<ledger, held, nextJti>>
             /\ \/ /\ resp'.code = 200
                   /\ {t.type : t \in resp'.out} = Kinds /\ Cardinality(resp'.out) = 2
                   /\ \A t \in resp'.out : HasRecord(t)' /\ ~HasRecord(t)
                \/ /\ resp'.code = 400 /\ resp'.msg = "Missing authorization code"
                   /\ resp'.out = {} /\ ledger' = ledger
                \/ /\ \E kind \in ProviderFailures : GoogleFailed(resp', kind)
                   /\ resp'.out = {} /\ ledger' = ledger]_vars

(* after a successful federated login that created a principal, a run has  *)
(* ended with a provider failure                                           *)
C14_Witness ==
    /\ GoogleFailed(resp, "provider_exchange_failed") \/ GoogleFailed(resp, "provider_profile_invalid")
    /\ \E u \in users : u.email = "g@x" /\ \E t \in held : t.identity = u.id /\ HasRecord(t)

(* ---- C15 ---- *)
(* role values a principal record can hold, known to the policy or not *)
RoleValues == {"User", "Admin", "Tech", "Guest", ""}

TierTTL(role, type) ==
    IF role = "Tech"
    THEN IF type = "access" THEN JWT_TECH_ACCESS_TOKEN_EXPIRE_SECONDS
         ELSE JWT_TECH_REFRESH_TOKEN_EXPIRE_SECONDS
    ELSE IF type = "access" THEN JWT_USER_ACCESS_TOKEN_EXPIRE_SECONDS
         ELSE JWT_USER_REFRESH_TOKEN_EXPIRE_SECONDS

(* C15: for role Tech both deltas are the TECH configuration values, for   *)
(* every other role value, known or not, they are the USER values; every   *)
(* token handed back by login or refresh lives exactly the delta of its    *)
(* principal's role and kind.                                              *)
C15_TwoTiers ==
    /\ \A role \in RoleValues :
          /\ get_access_token_expire_delta([role |-> role]) = TierTTL(role, "access")
          /\ get_refresh_expire_delta([role |-> role]) = TierTTL(role, "refresh")
    /\ resp.view \in {"login", "refresh"} =>
          \A t \in resp.out :
             \E u \in users : u.id = t.identity /\ t.exp - t.iat = TierTTL(u.role, t.type)

(* the Tech principal has logged in: its refresh token lives the TECH      *)
(* refresh delta, which is not the USER one                                *)
C15_Witness ==
    /\ resp.view = "login"
    /\ \E t \in resp.out :
          /\ t.type = "refresh"
          /\ t.exp - t.iat = JWT_TECH_REFRESH_TOKEN_EXPIRE_SECONDS
          /\ t.exp - t.iat # JWT_USER_REFRESH_TOKEN_EXPIRE_SECONDS
          /\ \E u \in users : u.id = t.identity /\ u.role = "Tech"

(* ---- C16 ---- *)
(* C16: an external identifier is not given to a new principal after the   *)
(* principal that had it was deleted.  Internal ids are handed out once,   *)
(* so a principal that has the external identifier of a principal of the   *)
(* initial store under another internal id was created after a deletion.   *)
C16_ExternalIdNeverReused ==
    \A u \in users :
        /\ u.uuid = "u1" => u.id = 1
        /\ u.uuid = "u2" => u.id = 2

(* ---- C18 ---- *)
(* C18: a handed-out token whose principal is no longer in the store is    *)
(* admitted neither where an access nor where a refresh token is required; *)
(* the principal found under a token's identity has the external           *)
(* identifier the token was issued for; an admitted request ran for a      *)
(* principal of the store, and a completed refresh issued its token for    *)
(* that principal.                                                         *)
C18_DeletedPrincipalRejected ==
    /\ \A t \in held :
          UserById(t.identity) = {} => \A kind \in Kinds : Verify(t, kind) # "ok"
    /\ \A t \in held, u \in users :
          (t.type = "access" /\ u.id = t.identity) => u.uuid = t.claims.uuid
    /\ (resp.auth = "ok" /\ resp.view # "user_delete") =>
          \E u \in users :
             /\ u.id = resp.identity
             /\ resp.tok.type = "access" => u.uuid = resp.claims.uuid
    /\ RefreshCompleted(resp) =>
          \A t \in resp.out :
             \E u \in users : u.id = t.identity /\ u.uuid = t.claims.uuid
                                /\ u.id = resp.tok.identity

(* bob was deleted and its external identifier given to a new principal;   *)
(* bob's unexpired, unrevoked tokens are still held, and the last request  *)
(* was refused because its token's principal could not be loaded           *)
C18_Witness ==
    /\ UserById(2) = {}
    /\ \E u \in users : u.uuid = "u2" /\ u.id # 2
    /\ \E t \in held : t.identity = 2 /\ Unexpired(t) /\ HasRecord(t) /\ ~RevokedFlag(t)
                         /\ Verify(t, t.type) = "UserLoadError"
    /\ resp.auth = "UserLoadError"

(* ---- C20 ---- *)
UniqueNames(us) ==
    \A a, b \in us : a # b => (a.username # b.username /\ a.email # b.email)

(* the username, or the email, of the body belongs to another principal   *)
(* than the one the request is addressed to                               *)
HeldByOther(user_uuid, dto) ==
    \E u \in users :
        /\ u.uuid # user_uuid
        /\ \/ "username" \in dto.has /\ u.username = dto.username
           \/ "email" \in dto.has /\ u.email = dto.email

(* C20: PUT requests run one at a time keep usernames and emails unique:   *)
(* an admitted PUT whose body passes validation and names a username or    *)
(* an email of another principal answers 409 and leaves the store as it    *)
(* was; an update naming none is answered 200, the principal's own         *)
(* username and email included.                                            *)
C20_UniqueUsernamesAndEmails ==
    [][/\ UniqueNames(users) => UniqueNames(users')
       /\ (resp'.view = "user_put" /\ resp'.auth = "ok" /\ resp'.code # 403) =>
            \A user_uuid \in PutTargets, dto \in UserDtos :
               UserResource_put(resp'.tok, user_uuid, dto) =>
                  /\ (HeldByOther(user_uuid, dto) /\ resp'.code # 422) =>
                        (resp'.code = 409 /\ users' = users)
                  /\ (~HeldByOther(user_uuid, dto) /\ UserByUuid(user_uuid) # {}) =>
                        resp'.code = 200
                  /\ resp'.code = 409 => (HeldByOther(user_uuid, dto) /\ users' = users)]_vars

(* an update that named the principal's own username went through, in a    *)
(* store where another principal could have been named                     *)
C20_Witness ==
    /\ resp.view = "user_put" /\ resp.code = 200
    /\ Cardinality(users) = 3
    /\ UniqueNames(users)
    /\ \E u \in users : u.uuid = "u1" /\ u.username = "ann" /\ u.email = "c@x"

(* ---- C19 ---- *)
Record(t, revoked) ==
    [jti |-> t.jti, type |-> t.type, user_id |-> t.identity, expires |-> t.exp,
     revoked |-> revoked]

(* C19: a login refused with 400 (body not JSON, username or password      *)
(* missing or empty, no principal with these credentials) hands back no    *)
(* token and leaves the ledger unchanged; a login answered 200 adds        *)
(* exactly two records, one access and one refresh, both of the principal  *)
(* with these credentials and both unrevoked, and changes no other record. *)
C19_LoginLedgerEffect ==
    [][\A req \in TechLoginRequests :
          login(req.is_json, req.username, req.password, req.fault) =>
             /\ (\/ ~req.is_json \/ req.username = "" \/ req.password = ""
                 \/ ~\E u \in users : u.username = req.username /\ u.password = req.password)
                   => resp'.code = 400
             /\ resp'.code = 400 =>
                   (resp'.out = {} /\ UNCHANGED <<ledger, held, nextJti>>)
             /\ resp'.code = 200 =>
                   \E u \in users, a \in resp'.out, r \in resp'.out :
                      /\ u.username = req.username /\ u.password = req.password
                      /\ resp'.out = {a, r}
                      /\ a.type = "access" /\ r.type = "refresh" /\ a.jti # r.jti
                      /\ a.identity = u.id /\ r.identity = u.id
                      /\ {a.jti, r.jti} \cap DOMAIN ledger = {}
                      /\ DOMAIN ledger' = DOMAIN ledger \cup {a.jti, r.jti}
                      /\ ledger'[a.jti] = Record(a, FALSE)
                      /\ ledger'[r.jti] = Record(r, FALSE)
                      /\ \A j \in DOMAIN ledger : ledger'[j] = ledger[j]]_vars

(* a login was refused while the ledger held records of an earlier login, *)
(* which are all still there and unrevoked                                *)
C19_Witness ==
    /\ resp.view = "login" /\ resp.code = 400 /\ resp.out = {}
    /\ Cardinality(DOMAIN ledger) = 2
    /\ {ledger[j].type : j \in DOMAIN ledger} = Kinds
    /\ \A j \in DOMAIN ledger : ~ledger[j].revoked

(* ---- C17 ---- *)
(* an access token that is, now, unexpired, recorded, unrevoked and whose  *)
(* principal is in the store; none of these comes back once lost, so such  *)
(* a token was valid at every earlier step as well                         *)
StillValid(t) ==
    /\ t \in held /\ t.type = "access"
    /\ Unexpired(t) /\ HasRecord(t) /\ ~RevokedFlag(t)
    /\ UserById(t.identity) # {}

VerifiedOn(w, t) == inflight[w].pc = "done" /\ inflight[w].tok = t

BothSucceed ==
    \A t \in held :
        (StillValid(t) /\ \A w \in Workers : VerifiedOn(w, t)) =>
            /\ \A w \in Workers :
                  /\ inflight[w].auth = "ok"
                  /\ inflight[w].identity = t.identity
                  /\ inflight[w].claims = t.claims
            /\ \A v, w \in Workers :
                  /\ inflight[v].identity = inflight[w].identity
                  /\ inflight[v].claims = inflight[w].claims

(* C17: however the steps of two verifications of one token interleave     *)
(* with each other and with other requests, if the token is still valid    *)
(* when both have ended then both succeeded with the token's identity and  *)
(* claims; no step of a verification changes the ledger, the identity      *)
(* store or the tokens handed out.                                         *)
C17_ConcurrentValidation ==
    [][/\ inflight' # inflight => UNCHANGED <<ledger, users, held, nextJti, nextId>>
       /\ BothSucceed']_vars

(* both workers have verified the same token with success, while a token  *)
(* of the other principal was revoked meanwhile                            *)
C17_Witness ==
    \E t \in held :
        /\ StillValid(t)
        /\ \A w \in Workers : VerifiedOn(w, t) /\ inflight[w].auth = "ok"
        /\ \E r \in held : r # t /\ RevokedFlag(r)

====
